---- MODULE Spec2Model ----
(***************************************************************************)
(* Model of ollama_agent.py: the three filesystem tools (read_file,        *)
(* list_files, edit_file) acting on a small filesystem, and the agent loop *)
(* (Agent.run) that interleaves user input, model inference and tool       *)
(* execution over an in-memory conversation.                               *)
(*                                                                         *)
(* A path is a sequence of components, a component a sequence of           *)
(* characters; str(p) is the character string Python's str(Path) yields.   *)
(* The filesystem is a function from the absolute paths that exist to      *)
(* nodes (directories, or regular files with their text).                  *)
(***************************************************************************)
EXTENDS Integers, Sequences, FiniteSets, TLC

VARIABLES fs, last, conversation, needs_user_input, pc, call_index,
          tool_result_messages, event

vars == <<fs, last, conversation, needs_user_input, pc, call_index,
          tool_result_messages, event>>

loopVars == <<conversation, needs_user_input, pc, call_index,
              tool_result_messages, event>>

----------------------------------------------------------------------------
(* Bounds *)

MaxContent == 3

MaxArgLen == 2

MaxTurns == 6

MaxCalls == 2

----------------------------------------------------------------------------
(* Characters, strings and path components *)

Alphabet == {"x", "y"}

RECURSIVE StringsUpTo(_)
StringsUpTo(n) ==
    IF n = 0 THEN {<<>>}
    ELSE LET shorter == StringsUpTo(n - 1)
         IN  shorter \cup {Append(s, c) : s \in shorter, c \in Alphabet}

W == <<"w">>

W2 == <<"w", "2">>

O == <<"o">>

A == <<"a">>

D == <<"d">>

DotDot == <<".", ".">>

Dot == <<".">>

Cwd == <<W>>

----------------------------------------------------------------------------
(* pathlib / str helpers *)

RECURSIVE str(_)
str(p) ==
    IF p = <<>> THEN <<"/">>
    ELSE IF Len(p) = 1 THEN <<"/">> \o p[1]
    ELSE str(SubSeq(p, 1, Len(p) - 1)) \o <<"/">> \o p[Len(p)]

startswith(s, prefix) ==
    /\ Len(prefix) <= Len(s)
    /\ SubSeq(s, 1, Len(prefix)) = prefix

parent(p) == IF p = <<>> THEN <<>> ELSE SubSeq(p, 1, Len(p) - 1)

RECURSIVE ResolveFrom(_, _)
ResolveFrom(base, parts) ==
    IF parts = <<>> THEN base
    ELSE LET c == Head(parts)
         IN  IF c = DotDot THEN ResolveFrom(parent(base), Tail(parts))
             ELSE IF c = Dot THEN ResolveFrom(base, Tail(parts))
             ELSE ResolveFrom(Append(base, c), Tail(parts))

resolve(parts) == ResolveFrom(Cwd, parts)

PathAllowed(p) == startswith(str(p), str(Cwd))

exists(f, p) == p \in DOMAIN f

is_file(f, p) == p \in DOMAIN f /\ f[p].kind = "file"

is_dir(f, p) == p \in DOMAIN f /\ f[p].kind = "dir"

DirNode == [kind |-> "dir", content |-> <<>>]

FileNode(text) == [kind |-> "file", content |-> text]

Prefixes(p) == {SubSeq(p, 1, n) : n \in 0..Len(p)}

mkdir_skipped(f, d) == [ok |-> TRUE, fs |-> f]

mkdir_parents(f, d) ==
    IF \E q \in Prefixes(d) : is_file(f, q)
    THEN [ok |-> FALSE, fs |-> f]
    ELSE [ok |-> TRUE,
          fs |-> [q \in (DOMAIN f) \cup Prefixes(d) |->
                     IF q \in DOMAIN f THEN f[q] ELSE DirNode]]

open_write(f, p, text) ==
    IF p = <<>> \/ is_dir(f, p) \/ ~is_dir(f, parent(p))
    THEN [ok |-> FALSE, fs |-> f]
    ELSE [ok |-> TRUE, fs |-> (p :> FileNode(text)) @@ f]

iterdir(f, d) ==
    {p \in DOMAIN f : Len(p) = Len(d) + 1 /\ parent(p) = d}

----------------------------------------------------------------------------
(* str.__contains__ and str.replace *)

OccursAt(s, sub, i) ==
    /\ i >= 1
    /\ i + Len(sub) - 1 <= Len(s)
    /\ SubSeq(s, i, i + Len(sub) - 1) = sub

contains(s, sub) == \E i \in 1..(Len(s) + 1) : OccursAt(s, sub, i)

RECURSIVE ReplaceScan(_, _, _)
ReplaceScan(s, old, new) ==
    IF Len(s) < Len(old) THEN s
    ELSE IF OccursAt(s, old, 1)
         THEN new \o ReplaceScan(SubSeq(s, Len(old) + 1, Len(s)), old, new)
         ELSE <<Head(s)>> \o ReplaceScan(Tail(s), old, new)

replace_first_only(s, old, new) ==
    LET i == CHOOSE k \in 1..Len(s) :
                 OccursAt(s, old, k) /\ \A j \in 1..(k - 1) : ~OccursAt(s, old, j)
    IN  SubSeq(s, 1, i - 1) \o new \o SubSeq(s, i + Len(old), Len(s))

replace(s, old, new) == ReplaceScan(s, old, new)

----------------------------------------------------------------------------
(* Tool arguments and tool results *)

NoPath == [tag |-> "absent", parts |-> <<>>]

NonStringPath == [tag |-> "nonstring", parts |-> <<>>]

PathStr(parts) == [tag |-> "str", parts |-> parts]

PathArgs ==
    {NoPath, NonStringPath, PathStr(<<>>), PathStr(<<A>>), PathStr(<<D, A>>),
     PathStr(<<A, A>>), PathStr(<<DotDot, W2, A>>), PathStr(<<DotDot, O, A>>)}

NoStr == [tag |-> "absent", s |-> <<>>]

Str(s) == [tag |-> "str", s |-> s]

StrArgs == {NoStr} \cup {Str(s) : s \in StringsUpTo(MaxArgLen)}

ToolInput(path, old_str, new_str) ==
    [path |-> path, old_str |-> old_str, new_str |-> new_str]

ToolInputs ==
    {ToolInput(p, o, n) : p \in PathArgs, o \in StrArgs, n \in StrArgs}

PathOnlyInputs == {ToolInput(p, NoStr, NoStr) : p \in PathArgs}

NoEntries == {}

Text(code, path, text) ==
    [kind |-> "text", code |-> code, path |-> path, content |-> text,
     entries |-> NoEntries]

JsonList(path, names) ==
    [kind |-> "json_list", code |-> "entries", path |-> path,
     content |-> <<>>, entries |-> names]

Error(code, path) ==
    [kind |-> "error", code |-> code, path |-> path, content |-> <<>>,
     entries |-> NoEntries]

Raised(path) ==
    [kind |-> "raise", code |-> "exception", path |-> path, content |-> <<>>,
     entries |-> NoEntries]

Outcome(result, f) == [result |-> result, fs |-> f]

----------------------------------------------------------------------------
(* The tool functions.  Each maps a filesystem and a parameter mapping to  *)
(* the value the function returns (or the fact that it raised) and the     *)
(* filesystem it leaves behind.                                            *)

read_file_tool(f, input) ==
    LET path_str == input.path
        file_path == resolve(path_str.parts)
    IN  IF path_str.tag = "absent" \/ (path_str.tag = "str" /\ path_str.parts = <<>>)
        THEN Outcome(Error("path_required", path_str), f)
        ELSE IF path_str.tag = "nonstring"
        THEN Outcome(Error("read_exception", path_str), f)
        ELSE IF ~PathAllowed(file_path)
        THEN Outcome(Error("access_denied", path_str), f)
        ELSE IF ~is_file(f, file_path)
        THEN Outcome(Error("file_not_found", path_str), f)
        ELSE Outcome(Text("file_content", path_str, f[file_path].content), f)

list_files_tool(f, input) ==
    LET path_str == IF input.path.tag = "absent" THEN PathStr(<<Dot>>)
                    ELSE input.path
        base_path == resolve(path_str.parts)
    IN  IF path_str.tag = "nonstring"
        THEN Outcome(Error("list_exception", path_str), f)
        ELSE IF ~PathAllowed(base_path)
        THEN Outcome(Error("access_denied", path_str), f)
        ELSE IF ~exists(f, base_path)
        THEN Outcome(Error("path_not_found", path_str), f)
        ELSE IF ~is_dir(f, base_path)
        THEN Outcome(Error("list_exception", path_str), f)
        ELSE Outcome(JsonList(path_str,
                 {IF is_dir(f, item) THEN item[Len(item)] \o <<"/">>
                  ELSE item[Len(item)] : item \in iterdir(f, base_path)}), f)

create_new_file(f, file_path_str, text) ==
    LET p == resolve(file_path_str.parts)
        made == mkdir_parents(f, parent(p))
        written == open_write(made.fs, p, text)
    IN  IF ~PathAllowed(p)
        THEN Outcome(Error("create_access_denied", file_path_str), f)
        ELSE IF ~made.ok
        THEN Outcome(Error("create_failed", file_path_str), f)
        ELSE IF ~written.ok
        THEN Outcome(Error("create_failed", file_path_str), made.fs)
        ELSE Outcome(Text("created", file_path_str, <<>>), written.fs)

RequiredMissing(path_str, new_str) ==
    path_str.tag = "absent" \/ new_str.tag = "absent"

SameOldNew_truthy(old_str, new_str) ==
    old_str.tag # "absent" /\ old_str.s # <<>> /\ old_str = new_str

SameOldNew(old_str, new_str) ==
    old_str.tag # "absent" /\ old_str = new_str

OldIsEmpty(old_str) ==
    old_str.tag = "absent" \/ old_str.s = <<>>

edit_existing_file(f, path_str, file_path, old_str, new_str) ==
    LET original_content == f[file_path].content
        modified_content ==
            IF OldIsEmpty(old_str) THEN original_content \o new_str.s
            ELSE replace(original_content, old_str.s, new_str.s)
        written == open_write(f, file_path, modified_content)
    IN  IF old_str.tag = "absent"
        THEN Outcome(Error("edit_exception", path_str), f)
        ELSE IF ~contains(original_content, old_str.s)
        THEN Outcome(Error("old_str_not_found", path_str), f)
        ELSE Outcome(Text("OK", path_str, <<>>), written.fs)

edit_file_tool(f, input) ==
    LET path_str == input.path
        old_str == input.old_str
        new_str == input.new_str
        file_path == resolve(path_str.parts)
    IN  IF RequiredMissing(path_str, new_str)
        THEN Outcome(Error("path_and_new_str_required", path_str), f)
        ELSE IF SameOldNew(old_str, new_str)
        THEN Outcome(Error("old_and_new_must_differ", path_str), f)
        ELSE IF path_str.tag = "nonstring"
        THEN Outcome(Raised(path_str), f)
        ELSE IF ~PathAllowed(file_path)
        THEN Outcome(Error("access_denied", path_str), f)
        ELSE IF ~exists(f, file_path)
        THEN IF OldIsEmpty(old_str)
             THEN create_new_file(f, path_str, new_str.s)
             ELSE Outcome(Error("file_not_found_old_given", path_str), f)
        ELSE IF ~is_file(f, file_path)
        THEN Outcome(Error("not_a_file", path_str), f)
        ELSE edit_existing_file(f, path_str, file_path, old_str, new_str)

ToolNames == {"read_file", "list_files", "edit_file"}

tool_function(tool_name, f, input) ==
    IF tool_name = "read_file" THEN read_file_tool(f, input)
    ELSE IF tool_name = "list_files" THEN list_files_tool(f, input)
    ELSE edit_file_tool(f, input)

NoCall ==
    [tool |-> "none", input |-> ToolInput(NoPath, NoStr, NoStr),
     result |-> Text("none", NoPath, <<>>)]

CallRecord(tool_name, input, result) ==
    [tool |-> tool_name, input |-> input, result |-> result]

----------------------------------------------------------------------------
(* Filesystems the tools are run against *)

BaseTree ==
    (<<>> :> DirNode) @@ (<<W>> :> DirNode) @@ (<<W2>> :> DirNode)
    @@ (<<W2, A>> :> FileNode(<<"y">>)) @@ (<<O>> :> DirNode)
    @@ (<<O, A>> :> FileNode(<<"y">>))

TreeWithFile(text) == (<<W, A>> :> FileNode(text)) @@ BaseTree

TreeWithDir(f) == (<<W, D>> :> DirNode) @@ f

InitialTrees ==
    LET plain == {BaseTree} \cup {TreeWithFile(t) : t \in StringsUpTo(MaxContent)}
    IN  plain \cup {TreeWithDir(f) : f \in plain}

----------------------------------------------------------------------------
(* Direct tool calls: one call of one tool function on one filesystem *)

InitTools ==
    /\ fs \in InitialTrees
    /\ last = NoCall
    /\ conversation = <<>>
    /\ needs_user_input = TRUE
    /\ pc = "prompt"
    /\ call_index = 0
    /\ tool_result_messages = <<>>
    /\ event = "start"

Call(tool_name, input) ==
    LET out == tool_function(tool_name, fs, input)
    IN  /\ last = NoCall
        /\ fs' = out.fs
        /\ last' = CallRecord(tool_name, input, out.result)
        /\ UNCHANGED loopVars

CallReadFile == \E input \in PathOnlyInputs : Call("read_file", input)

CallListFiles == \E input \in PathOnlyInputs : Call("list_files", input)

CallEditFile == \E input \in ToolInputs : Call("edit_file", input)

NextTools == CallReadFile \/ CallListFiles \/ CallEditFile

SpecTools == InitTools /\ [][NextTools]_vars

----------------------------------------------------------------------------
(* The agent loop *)

Turn(role, content, tool_calls) ==
    [role |-> role, content |-> content, tool_calls |-> tool_calls]

UserTurn == Turn("user", Text("message", NoPath, <<"x">>), <<>>)

ToolTurn(result) == Turn("tool", result, <<>>)

Request(name, isdict, input) ==
    [name |-> name, isdict |-> isdict, arguments |-> input]

Requests ==
    {Request("read_file", TRUE, ToolInput(PathStr(<<A>>), NoStr, NoStr)),
     Request("edit_file", TRUE,
             ToolInput(PathStr(<<A>>), Str(<<"x">>), Str(<<"y">>))),
     Request("edit_file", TRUE, ToolInput(NonStringPath, NoStr, Str(<<"x">>))),
     Request("list_files", TRUE, ToolInput(NoPath, NoStr, NoStr)),
     Request("read_file", FALSE, ToolInput(NoPath, NoStr, NoStr)),
     Request("unknown_tool", TRUE, ToolInput(NoPath, NoStr, NoStr))}

RECURSIVE RequestLists(_)
RequestLists(n) ==
    IF n = 0 THEN {<<>>}
    ELSE LET shorter == RequestLists(n - 1)
         IN  shorter \cup {Append(l, r) : l \in shorter, r \in Requests}

AssistantTexts == {<<>>, <<"x">>}

AssistantMessages ==
    {Turn("assistant", Text("message", NoPath, t), calls) :
        t \in AssistantTexts, calls \in RequestLists(MaxCalls)}

execute_tool(f, tool_name, tool_input) ==
    IF tool_name \notin ToolNames
    THEN Outcome(Error("tool_not_found", NoPath), f)
    ELSE LET out == tool_function(tool_name, f, tool_input)
         IN  IF out.result.kind = "raise"
             THEN Outcome(Error("agent_failed_to_execute", NoPath), out.fs)
             ELSE out

Init ==
    /\ fs = TreeWithFile(<<"x">>)
    /\ last = NoCall
    /\ conversation = <<>>
    /\ needs_user_input = TRUE
    /\ pc = "prompt"
    /\ call_index = 0
    /\ tool_result_messages = <<>>
    /\ event = "start"

NextPc(needs) == IF needs THEN "prompt" ELSE "infer"

UserEndOfInput ==
    /\ pc = "prompt"
    /\ pc' = "done"
    /\ event' = "end_of_input"
    /\ UNCHANGED <<fs, last, conversation, needs_user_input, call_index,
                   tool_result_messages>>

UserBlankInput ==
    /\ pc = "prompt"
    /\ event' = "blank_input"
    /\ UNCHANGED <<fs, last, conversation, needs_user_input, pc, call_index,
                   tool_result_messages>>

UserMessage ==
    /\ pc = "prompt"
    /\ Len(conversation) < MaxTurns
    /\ conversation' = Append(conversation, UserTurn)
    /\ pc' = "infer"
    /\ event' = "user_message"
    /\ UNCHANGED <<fs, last, needs_user_input, call_index,
                   tool_result_messages>>

InferenceFails_keeps_flag ==
    /\ pc = "infer"
    /\ pc' = NextPc(needs_user_input)
    /\ event' = "inference_failed"
    /\ UNCHANGED <<fs, last, conversation, needs_user_input, call_index,
                   tool_result_messages>>

InferenceFails ==
    /\ pc = "infer"
    /\ needs_user_input' = TRUE
    /\ pc' = NextPc(needs_user_input')
    /\ event' = "inference_failed"
    /\ UNCHANGED <<fs, last, conversation, call_index, tool_result_messages>>

AssistantReplies(message) ==
    /\ pc = "infer"
    /\ message.tool_calls = <<>>
    /\ Len(conversation) < MaxTurns
    /\ conversation' = Append(conversation, message)
    /\ needs_user_input' = TRUE
    /\ pc' = NextPc(needs_user_input')
    /\ event' = "assistant_reply"
    /\ UNCHANGED <<fs, last, call_index, tool_result_messages>>

AssistantRequestsTools_prompting(message) ==
    /\ pc = "infer"
    /\ message.tool_calls # <<>>
    /\ Len(conversation) + 1 + Len(message.tool_calls) <= MaxTurns
    /\ conversation' = Append(conversation, message)
    /\ needs_user_input' = TRUE
    /\ tool_result_messages' = <<>>
    /\ call_index' = 1
    /\ pc' = "tools"
    /\ event' = "assistant_tool_calls"
    /\ UNCHANGED <<fs, last>>

AssistantRequestsTools(message) ==
    /\ pc = "infer"
    /\ message.tool_calls # <<>>
    /\ Len(conversation) + 1 + Len(message.tool_calls) <= MaxTurns
    /\ conversation' = Append(conversation, message)
    /\ needs_user_input' = FALSE
    /\ tool_result_messages' = <<>>
    /\ call_index' = 1
    /\ pc' = "tools"
    /\ event' = "assistant_tool_calls"
    /\ UNCHANGED <<fs, last>>

raw_tool_calls == conversation[Len(conversation)].tool_calls

ExecuteToolCall_skipping ==
    /\ pc = "tools"
    /\ call_index <= Len(raw_tool_calls)
    /\ LET tool_call_request == raw_tool_calls[call_index]
           tool_name == tool_call_request.name
           tool_arguments == tool_call_request.arguments
           out == execute_tool(fs, tool_name, tool_arguments)
       IN  IF ~tool_call_request.isdict
           THEN UNCHANGED <<tool_result_messages, fs, last>>
           ELSE /\ tool_result_messages' =
                       Append(tool_result_messages, ToolTurn(out.result))
                /\ fs' = out.fs
                /\ last' = IF tool_name \in ToolNames
                           THEN CallRecord(tool_name, tool_arguments,
                                    tool_function(tool_name, fs, tool_arguments).result)
                           ELSE last
    /\ call_index' = call_index + 1
    /\ event' = "tool_call"
    /\ UNCHANGED <<conversation, needs_user_input, pc>>

ExecuteToolCall ==
    /\ pc = "tools"
    /\ call_index <= Len(raw_tool_calls)
    /\ LET tool_call_request == raw_tool_calls[call_index]
           tool_name == tool_call_request.name
           tool_arguments == tool_call_request.arguments
           out == execute_tool(fs, tool_name, tool_arguments)
       IN  IF ~tool_call_request.isdict
           THEN /\ tool_result_messages' =
                       Append(tool_result_messages,
                              ToolTurn(Error("arguments_not_a_dictionary", NoPath)))
                /\ UNCHANGED <<fs, last>>
           ELSE /\ tool_result_messages' =
                       Append(tool_result_messages, ToolTurn(out.result))
                /\ fs' = out.fs
                /\ last' = IF tool_name \in ToolNames
                           THEN CallRecord(tool_name, tool_arguments,
                                    tool_function(tool_name, fs, tool_arguments).result)
                           ELSE last
    /\ call_index' = call_index + 1
    /\ event' = "tool_call"
    /\ UNCHANGED <<conversation, needs_user_input, pc>>

FinishToolCalls_replacing ==
    /\ pc = "tools"
    /\ call_index > Len(raw_tool_calls)
    /\ conversation' = tool_result_messages
    /\ pc' = NextPc(needs_user_input)
    /\ event' = "tool_results_appended"
    /\ UNCHANGED <<fs, last, needs_user_input, call_index, tool_result_messages>>

FinishToolCalls ==
    /\ pc = "tools"
    /\ call_index > Len(raw_tool_calls)
    /\ conversation' = conversation \o tool_result_messages
    /\ pc' = NextPc(needs_user_input)
    /\ event' = "tool_results_appended"
    /\ UNCHANGED <<fs, last, needs_user_input, call_index, tool_result_messages>>

InferenceResponds ==
    \E message \in AssistantMessages :
        AssistantReplies(message) \/ AssistantRequestsTools(message)

Next ==
    \/ UserEndOfInput
    \/ UserBlankInput
    \/ UserMessage
    \/ InferenceFails
    \/ InferenceResponds
    \/ ExecuteToolCall
    \/ FinishToolCalls

Spec == Init /\ [][Next]_vars

----------------------------------------------------------------------------
(* Vocabulary of the properties *)

IsWithinCwd(p) ==
    /\ Len(Cwd) <= Len(p)
    /\ SubSeq(p, 1, Len(Cwd)) = Cwd

Called(tool_name) == last' # last /\ last'.tool = tool_name

ArgPath == resolve(last'.input.path.parts)

OldArg == last'.input.old_str

NewArg == last'.input.new_str

WellFormedCall ==
    /\ last' # last
    /\ last'.tool \in ToolNames
    /\ last'.input.path.tag = "str"
    /\ last'.input.path.parts # <<>>
    /\ last'.tool = "edit_file" => (NewArg.tag = "str" /\ OldArg # NewArg)

OthersUntouched(p) ==
    /\ DOMAIN fs \subseteq DOMAIN fs'
    /\ \A q \in DOMAIN fs : q # p => fs'[q] = fs[q]

InferenceEvents == {"inference_failed", "assistant_reply", "assistant_tool_calls"}

PromptEvents == {"end_of_input", "blank_input", "user_message"}

ToolEvents == {"tool_call", "tool_results_appended"}

(* The occurrences str.replace substitutes, as a set of start positions:   *)
(* an occurrence is taken unless an earlier taken occurrence overlaps it.  *)
TakenOccurrences(s, old) ==
    CHOOSE P \in SUBSET (1..Len(s)) :
        \A q \in 1..Len(s) :
            q \in P <=> /\ OccursAt(s, old, q)
                        /\ \A r \in P : r < q => r + Len(old) <= q

RECURSIVE Rebuilt(_, _, _, _, _)
Rebuilt(s, P, width, new, i) ==
    IF i > Len(s) THEN <<>>
    ELSE IF i \in P THEN new \o Rebuilt(s, P, width, new, i + width)
    ELSE <<s[i]>> \o Rebuilt(s, P, width, new, i + 1)

ReplaceCase ==
    /\ Called("edit_file")
    /\ last'.input.path.tag = "str"
    /\ IsWithinCwd(ArgPath)
    /\ is_file(fs, ArgPath)
    /\ OldArg.tag = "str" /\ OldArg.s # <<>>
    /\ NewArg.tag = "str" /\ OldArg # NewArg
    /\ contains(fs[ArgPath].content, OldArg.s)

AppendCase ==
    /\ Called("edit_file")
    /\ last'.input.path.tag = "str"
    /\ IsWithinCwd(ArgPath)
    /\ is_file(fs, ArgPath)
    /\ OldIsEmpty(OldArg)
    /\ NewArg.tag = "str" /\ OldArg # NewArg

CreateCase ==
    /\ Called("edit_file")
    /\ last'.input.path.tag = "str"
    /\ IsWithinCwd(ArgPath)
    /\ ~exists(fs, ArgPath)
    /\ OldIsEmpty(OldArg)
    /\ NewArg.tag = "str"

Created ==
    /\ last'.result = Text("created", last'.input.path, <<>>)
    /\ is_file(fs', ArgPath)
    /\ fs'[ArgPath].content = NewArg.s
    /\ \A q \in Prefixes(parent(ArgPath)) : is_dir(fs', q)
    /\ OthersUntouched(ArgPath)

----------------------------------------------------------------------------
(* Properties of the tool functions (checked under SpecTools) *)

(* C1: a call of any of the three tools, with otherwise well-formed        *)
(* arguments, whose resolved path is neither the working directory nor a   *)
(* descendant of it returns the access-denied error and leaves the         *)
(* filesystem as it was.                                                   *)
C1_OutsideCwdIsDenied ==
    [][(WellFormedCall /\ ~IsWithinCwd(ArgPath))
         => /\ last'.result = Error("access_denied", last'.input.path)
            /\ fs' = fs]_vars

(* C2 as stated: editing an existing file with a non-empty old_str that   *)
(* occurs in it replaces exactly one occurrence and leaves the others.     *)
C2_ExactlyOneReplacement ==
    [][ReplaceCase
         => /\ last'.result = Text("OK", last'.input.path, <<>>)
            /\ \E i \in 1..Len(fs[ArgPath].content) :
                  /\ OccursAt(fs[ArgPath].content, OldArg.s, i)
                  /\ fs'[ArgPath].content =
                        SubSeq(fs[ArgPath].content, 1, i - 1) \o NewArg.s
                        \o SubSeq(fs[ArgPath].content, i + Len(OldArg.s),
                                  Len(fs[ArgPath].content))]_vars

(* C2 amended: editing an existing file with a non-empty old_str that     *)
(* occurs in it returns OK and writes the original content with every      *)
(* occurrence of old_str (taken left to right, without overlap) replaced   *)
(* by new_str; no other path changes.                                      *)
C2_ReplacesEveryOccurrence ==
    [][ReplaceCase
         => /\ last'.result = Text("OK", last'.input.path, <<>>)
            /\ is_file(fs', ArgPath)
            /\ fs'[ArgPath].content =
                  Rebuilt(fs[ArgPath].content,
                          TakenOccurrences(fs[ArgPath].content, OldArg.s),
                          Len(OldArg.s), NewArg.s, 1)
            /\ OthersUntouched(ArgPath)]_vars

C2_Witness ==
    /\ last.tool = "edit_file"
    /\ last.input = ToolInput(PathStr(<<A>>), Str(<<"x">>), Str(<<"y", "y">>))
    /\ last.result.code = "OK"
    /\ is_file(fs, <<W, A>>)
    /\ fs[<<W, A>>].content = <<"y", "y", "y", "y", "y", "y">>

(* C3: editing an existing file with empty old text (old_str "" or        *)
(* omitted) and a new_str different from it returns success and leaves     *)
(* the file holding the original content followed by new_str.              *)
C3_EmptyOldAppends ==
    [][AppendCase
         => /\ last'.result = Text("OK", last'.input.path, <<>>)
            /\ is_file(fs', ArgPath)
            /\ fs'[ArgPath].content = fs[ArgPath].content \o NewArg.s]_vars

(* C4 as stated: editing a path at which nothing exists, with empty old   *)
(* text, creates the file with content new_str for every new_str.          *)
C4_CreatesForEveryNewStr ==
    [][CreateCase => Created]_vars

(* C4 amended: the file is created with content new_str (and its missing  *)
(* parent directories are created) unless old_str and new_str are both     *)
(* the empty string or a component above the path is an existing regular   *)
(* file.                                                                   *)
C4_CreatesUnlessSameOrBlocked ==
    [][(/\ CreateCase
        /\ ~(OldArg.tag = "str" /\ OldArg = NewArg)
        /\ \A q \in Prefixes(ArgPath) : ~is_file(fs, q))
         => Created]_vars

C4_Witness ==
    /\ last.tool = "edit_file"
    /\ last.input = ToolInput(PathStr(<<A, A>>), NoStr, Str(<<>>))
    /\ last.result.code = "created"
    /\ is_dir(fs, <<W, A>>)
    /\ is_file(fs, <<W, A, A>>)

(* C5: edit_file called with old_str equal to new_str returns an error,   *)
(* whatever the path and the state of the file, and leaves the filesystem  *)
(* unchanged.                                                              *)
C5_SameOldNewIsAnError ==
    [][(Called("edit_file") /\ OldArg = NewArg)
         => /\ last'.result.kind = "error"
            /\ fs' = fs]_vars

C5_Witness ==
    /\ last.tool = "edit_file"
    /\ last.input = ToolInput(PathStr(<<A>>), Str(<<"x">>), Str(<<"x">>))
    /\ is_file(fs, <<W, A>>)
    /\ contains(fs[<<W, A>>].content, <<"x">>)
    /\ last.result = Error("old_and_new_must_differ", PathStr(<<A>>))

(* C8: no tool function raises, whatever the parameter mapping: every     *)
(* failure is a returned error payload.                                    *)
C8_ToolsNeverRaise ==
    last.result.kind # "raise"

----------------------------------------------------------------------------
(* Properties of the agent loop (checked under Spec) *)

(* C6: after a model response with at least one tool call the loop runs   *)
(* the tools, appends their results and calls the model again with no user *)
(* prompt in between; after a response with no tool calls the next step is *)
(* a user prompt, and inference only ever follows a non-blank user message *)
(* or appended tool results.                                               *)
C6_ToolCallsSkipThePrompt ==
    [][/\ event = "assistant_tool_calls" => event' \in ToolEvents
       /\ event = "tool_call" => event' \in ToolEvents
       /\ event = "tool_results_appended"
            => /\ event' \in InferenceEvents
               /\ conversation[Len(conversation)].role = "tool"
       /\ event = "assistant_reply" => event' \in PromptEvents
       /\ event = "blank_input" => event' \in PromptEvents
       /\ event' \in InferenceEvents
            => event \in {"user_message", "tool_results_appended"}]_vars

C6_Witness ==
    /\ event = "assistant_reply"
    /\ Len(conversation) = 4
    /\ conversation[2].role = "assistant"
    /\ Len(conversation[2].tool_calls) = 1
    /\ conversation[3].role = "tool"
    /\ conversation[4].role = "assistant"
    /\ pc = "prompt"

(* C7: a failed inference call appends no turn, executes no tool and is   *)
(* followed by a user prompt, also when it was the follow-up call made     *)
(* after tool results.                                                     *)
C7_FailedInferenceReturnsToPrompt ==
    [][/\ event' = "inference_failed"
            => /\ conversation' = conversation
               /\ fs' = fs
               /\ last' = last
               /\ tool_result_messages' = tool_result_messages
       /\ event = "inference_failed" => event' \in PromptEvents]_vars

C7_Witness ==
    /\ event = "inference_failed"
    /\ Len(conversation) = 3
    /\ conversation[2].role = "assistant"
    /\ conversation[3].role = "tool"
    /\ pc = "prompt"

(* C9: the conversation is append-only: in every step the conversation    *)
(* before the step is a prefix of the conversation after it.               *)
C9_ConversationAppendOnly ==
    [][/\ Len(conversation) <= Len(conversation')
       /\ SubSeq(conversation', 1, Len(conversation)) = conversation]_vars

C9_Witness ==
    /\ pc = "done"
    /\ Len(conversation) = 5
    /\ conversation[3].role = "tool"
    /\ conversation[5].role = "user"

C10_Structure ==
    pc # "tools" =>
        \A j \in 1..Len(conversation) :
            LET k == Len(conversation[j].tool_calls)
            IN  (conversation[j].role = "assistant" /\ k >= 1)
                  => /\ j + k <= Len(conversation)
                     /\ \A m \in 1..k : conversation[j + m].role = "tool"
                     /\ j + k + 1 <= Len(conversation)
                          => conversation[j + k + 1].role # "tool"

C10_Step ==
    /\ (event' = "tool_call" /\ call_index' # call_index)
         => LET request == raw_tool_calls[call_index]
                n == Len(tool_result_messages)
                turn == tool_result_messages'[n + 1]
            IN  /\ pc = "tools" /\ pc' = "tools"
                /\ call_index' = call_index + 1
                /\ conversation' = conversation
                /\ Len(tool_result_messages') = n + 1
                /\ SubSeq(tool_result_messages', 1, n) = tool_result_messages
                /\ turn.role = "tool"
                /\ IF request.name \notin ToolNames \/ ~request.isdict
                   THEN turn.content.kind = "error" /\ fs' = fs
                   ELSE /\ last'.tool = request.name
                        /\ last'.input = request.arguments
                        /\ IF last'.result.kind = "raise"
                           THEN turn.content.kind = "error"
                           ELSE turn.content = last'.result
    /\ event' = "tool_results_appended" /\ event # "tool_results_appended"
         => /\ Len(tool_result_messages) = Len(raw_tool_calls)
            /\ conversation' = conversation \o tool_result_messages

(* C10: an assistant message with k >= 1 tool-call requests is followed   *)
(* directly by exactly k tool-role turns, the i-th produced from the i-th  *)
(* request; a request naming an unknown tool, carrying non-mapping         *)
(* arguments, or whose tool fails or raises yields one tool-role turn      *)
(* holding an error payload, and the remaining requests still run.         *)
C10_OneToolTurnPerRequest ==
    []C10_Structure /\ [][C10_Step]_vars

C10_Witness ==
    /\ pc = "prompt"
    /\ Len(conversation) = 5
    /\ conversation[2].role = "assistant"
    /\ Len(conversation[2].tool_calls) = 2
    /\ conversation[2].tool_calls[1].name = "unknown_tool"
    /\ conversation[2].tool_calls[2].name = "edit_file"
    /\ conversation[2].tool_calls[2].arguments.path = NonStringPath
    /\ conversation[3] = ToolTurn(Error("tool_not_found", NoPath))
    /\ conversation[4] = ToolTurn(Error("agent_failed_to_execute", NoPath))
    /\ conversation[5].role = "assistant"

====
